---- MODULE Spec2Model ----
(***************************************************************************)
(* Realtime task synchronisation of make-a-task: the REST mutation         *)
(* handlers and socket.io broadcast helpers of backend/server.js, and the  *)
(* zustand client store (use_app_store) with its realtime event handlers.  *)
(*                                                                         *)
(* Spec       the server's status-change and add-comment handlers run by   *)
(*            two concurrent connections against the seeded database,      *)
(*            together with one client store that loads the task list.     *)
(* StoreSpec  the client store alone: its setters and its realtime event   *)
(*            handlers applied to arbitrary payloads.                      *)
(* SocketSpec the socket connections alone: the store's init_socket and    *)
(*            disconnect_socket, the sockets of other clients, and the     *)
(*            server's connection handler with its rooms.                  *)
(* NotifySpec the notification list of the store alone, with the record of *)
(*            the notification_update events it has received.              *)
(* EmitSpec   broadcastEvent applied to a few channels while other         *)
(*            clients' sockets connect, take their events and disconnect.  *)
(***************************************************************************)
EXTENDS Integers, Sequences, FiniteSets, TLC

VARIABLES
    \* ---- database (server.js pool, schema of db.sql) ----
    db_status,        \* tasks.status, per task id
    db_activity,      \* rows of task_activity
    db_comments,      \* rows of comments
    \* ---- request handling (one Express handler invocation per connection) ----
    req,              \* per connection: the request being handled and its position
    nreq,             \* number of requests received so far
    published,        \* events handed to broadcastEvent, in order
    commits,          \* history: the durable task writes that committed
    watched,          \* history, per task: its last status write committed while the
                      \* store's socket was connected, and it has stayed connected
    link,             \* history of the store's connection: "dropped" after it was lost,
                      \* "missed" once a status write committed during the drop,
                      \* "restored" once it is connected again after that; a
                      \* fetch of the task list makes up for what was missed
    raced,            \* history: the task, if any, whose status was written by a
                      \* request while another request that had written it was
                      \* still in progress
    \* ---- client store (use_app_store) ----
    tasks,
    current_task,
    notifications,
    socket,
    socket_connected,
    \* ---- socket connections (socket.io client sockets and their server side) ----
    sockets,          \* per socket created so far: its client and server-side state
    \* ---- notification list on its own ----
    last_update,      \* history, per notification id: the last notification_update
                      \* payload received since the list was set, and how many
    \* ---- task cache on its own ----
    last_status,      \* history, per task id: the last task_status_updated payload
                      \* received since a setter was last called by a caller
    \* ---- further request handlers ----
    db_favorites,     \* task_favorites: set of <<user_id, task_id>>
    writes,           \* history: the INSERT and UPDATE statements on tasks sent to the
                      \* database with a status, and whether it accepted them
    \* ---- workspace creation and the connection pool ----
    pool,             \* per pooled database client created so far: the state of its
                      \* transaction and the rows inserted in it and not yet committed
    idle,             \* the pool's idle clients, the last released at the end
    db_workspaces,    \* workspaces: ids of the committed rows
    db_members        \* workspace_users: workspace ids of the committed rows that make
                      \* the creator a member

vars == <<db_status, db_activity, db_comments, req, nreq, published, commits, watched, link,
          raced,          tasks, current_task, notifications, socket, socket_connected, sockets,
          last_update, last_status, db_favorites, writes, pool, idle, db_workspaces,
          db_members>>

dbVars == <<db_status, db_activity, db_comments>>
serverVars == <<db_status, db_activity, db_comments, req, nreq, published, commits>>
cacheVars == <<tasks, current_task, notifications>>
socketVars == <<socket, socket_connected>>
histVars == <<watched, link, raced>>
\* state of the parts that are studied on their own
partVars == <<last_status>>
apiVars == <<db_favorites, writes>>
wsVars == <<pool, idle, db_workspaces, db_members>>
aloneVars == <<sockets, last_update, partVars, apiVars, wsVars>>

----------------------------------------------------------------------------
\* Bounds of the model

MaxRequests == 2      \* requests received over a run
MaxComments == 2      \* comments rows inserted over a run
MaxTs == 1            \* timestamps carried by events range over 0..MaxTs
MaxListLen == 2       \* length of the lists handed to the store's setters

----------------------------------------------------------------------------
\* Seed data (db.sql)

Null == "null"

\* current_task: null
NullTask == [task_id |-> Null]

Users == {"user1", "user2", "user4"}

Role == [u \in Users |->
            CASE u = "user1" -> "Admin"
              [] u = "user2" -> "Team Member"
              [] u = "user4" -> "Team Member"]

Workspaces == {"workspace1", "workspace2"}

WorkspaceOwner == [w \in Workspaces |->
            IF w = "workspace1" THEN "user1" ELSE "user5"]

WorkspaceUsers == {<<"workspace1", "user1">>, <<"workspace1", "user2">>,
                   <<"workspace2", "user5">>, <<"workspace2", "user4">>}

TaskIds == {"task1", "task3"}

TaskWorkspace == [t \in TaskIds |->
            IF t = "task1" THEN "workspace1" ELSE "workspace2"]

SeedStatus == [t \in TaskIds |->
            IF t = "task1" THEN "In Progress" ELSE "Pending"]

SeedFavorites == {<<"user2", "task1">>, <<"user4", "task3">>}

SeedActivity == {[task_id |-> "task1", user_id |-> "user1", action |-> "created"],
                 [task_id |-> "task1", user_id |-> "user2", action |-> "updated"],
                 [task_id |-> "task3", user_id |-> "user5", action |-> "created"]}

\* Columns of the tables the modelled handlers write
TableColumns(table) ==
    CASE table = "tasks" ->
           {"id", "workspace_id", "created_by", "assigned_to", "title", "description",
            "due_date", "priority", "status", "created_at", "updated_at"}
      [] table = "task_activity" ->
           {"id", "task_id", "user_id", "action", "timestamp", "details"}
      [] table = "comments" ->
           {"id", "task_id", "user_id", "content", "mentions", "created_at", "updated_at"}

----------------------------------------------------------------------------
\* Request inputs

Conns == {"conn1", "conn2"}

Tokens == {"none", "invalid"} \cup Users

ReqTasks == {"task1", "task9"}

validStatuses == {"Pending", "In Progress", "Completed", "On Hold", "Cancelled"}

ReqStatuses == {"Completed", "On Hold", "Archived"}

IdleReq == [kind |-> "none", token |-> "none", task |-> Null, status |-> Null,
            pc |-> "idle", resp |-> 0, ws |-> Null, member |-> FALSE,
            owner |-> Null, wrote |-> FALSE, logged |-> FALSE, queries |-> 0,
            emitted |-> 0, client |-> Null, error |-> Null]

----------------------------------------------------------------------------
\* Pure parts of the handlers

\* authenticateToken: 0 when the request goes on to the handler
authenticateToken(token) ==
    CASE token = "none" -> 401
      [] token = "invalid" -> 403
      [] OTHER -> 0

\* Faulty variant: the validation only tests that a status was sent
InvalidStatus_presenceOnly(status) == status = Null

\* POST /tasks/:task_id/status: the validation that precedes the try block
InvalidStatus(status) == status \notin validStatuses

\* Faulty variant: the three tests joined by "and" instead of "or"
StatusForbidden_allOf(role, isMember, ownerRowFound, isOwner) ==
    role # "Admin" /\ (~isMember /\ ~ownerRowFound /\ ~isOwner)

\* POST /tasks/:task_id/status: the 403 condition
StatusForbidden(role, isMember, ownerRowFound, isOwner) ==
    role # "Admin" /\ (~isMember \/ ~ownerRowFound \/ ~isOwner)

\* POST /tasks/:task_id/comments: the 403 condition
CommentForbidden(role, isMember, isOwner) ==
    role # "Admin" /\ ~isMember /\ ~isOwner

\* PUT /tasks/:task_id: the 403 condition (the caller's role is not read)
UpdateForbidden(isMember, ownerRowFound, isOwner) ==
    ~isMember /\ (~ownerRowFound \/ ~isOwner)

\* DELETE /tasks/:task_id: the 403 condition
DeleteForbidden(role, isMember, ownerRowFound, isOwner) ==
    role # "Admin" /\ (~isMember \/ ~ownerRowFound \/ ~isOwner)

\* POST /tasks/:task_id/attachments: the 403 condition
AttachmentForbidden(role, isMember, ownerRowFound, isOwner) ==
    role # "Admin" /\ (~isMember \/ ~ownerRowFound \/ ~isOwner)

\* An INSERT or UPDATE naming a column the table lacks is refused by the database
ColumnsExist(table, cols) == cols \subseteq TableColumns(table)

\* CHECK (status IN (...)) of tasks
StatusCheckConstraint(status) ==
    status \in {"Pending", "In Progress", "Completed", "On Hold", "Cancelled"}

StatusUpdateColumns == {"status", "updated_at", "id"}
ActivityInsertColumns == {"task_id", "user_id", "action", "description", "timestamp"}
CommentInsertColumns == {"task_id", "user_id", "content", "mentions", "created_at", "updated_at"}

\* broadcastEvent: io.of('/').to(channel).emit(channel, message)
broadcastEvent(channel, message) == [room |-> channel, event |-> channel, payload |-> message]

\* broadcastTaskStatusUpdate / broadcastCommentCreated
broadcastTaskStatusUpdate(task_id, new_status, now) ==
    broadcastEvent("task/status/updated",
                   [task_id |-> task_id, new_status |-> new_status, timestamp |-> now])

broadcastCommentCreated(comment) == broadcastEvent("task/comment/new", comment)

broadcastAttachmentUploaded(attachment) ==
    broadcastEvent("task/attachment/uploaded", attachment)

broadcastTaskReordered(reorderData) == broadcastEvent("task/reorder", reorderData)

broadcastActivityStream(activity) == broadcastEvent("activity/stream", activity)

\* Faulty variant: the status handler publishes as soon as the request is validated
StatusHandlerEmits_beforeWrite(step, task, status) ==
    IF step = "received" THEN <<broadcastTaskStatusUpdate(task, status, 0)>> ELSE <<>>

\* The events a handler hands to broadcastEvent on reaching `step`: the handlers
\* call none of the broadcast helpers
StatusHandlerEmits(step, task, status) == <<>>

CommentHandlerEmits(step, task, comment_id) == <<>>

----------------------------------------------------------------------------
\* Initial state: the seeded database, no request in progress, a fresh store

Init ==
    /\ db_status = SeedStatus
    /\ db_activity = SeedActivity
    /\ db_comments = <<>>
    /\ req = [c \in Conns |-> IdleReq]
    /\ nreq = 0
    /\ published = <<>>
    /\ commits = {}
    /\ watched = [t \in TaskIds |-> FALSE]
    /\ link = "new"
    /\ raced = Null
    /\ tasks = <<>>
    /\ current_task = NullTask
    /\ notifications = <<>>
    /\ socket = Null
    /\ socket_connected = FALSE
    /\ sockets = <<>>
    /\ last_update = [id \in {"n1", "n2", "n3"} |-> [last |-> [notification_id |-> Null], count |-> 0]]
    /\ last_status = [t \in TaskIds |-> [task_id |-> Null]]
    /\ db_favorites = SeedFavorites
    /\ writes = {}
    /\ pool = <<>>
    /\ idle = <<>>
    /\ db_workspaces = {}
    /\ db_members = {}

----------------------------------------------------------------------------
\* Server: request handlers, one action per await

Free(c) == req[c].pc \in {"idle", "done"}

\* The store's socket is connected under the credential of a member of the
\* workspace of task t
Connected(t) ==
    /\ socket \in Users
    /\ socket_connected
    /\ <<TaskWorkspace[t], socket>> \in WorkspaceUsers

PendingComments == Cardinality({c \in Conns : req[c].kind = "comment" /\ ~Free(c)})

\* POST /tasks/:task_id/status up to its first await
StatusRequest(c, token, task, status) ==
    /\ Free(c)
    /\ nreq < MaxRequests
    /\ nreq' = nreq + 1
    /\ LET ev == IF authenticateToken(token) = 0
                   THEN StatusHandlerEmits("received", task, status) ELSE <<>>
           r == [IdleReq EXCEPT !.kind = "status", !.token = token, !.task = task,
                                !.status = status, !.emitted = Len(ev)]
       IN /\ req' = [req EXCEPT ![c] =
                       IF authenticateToken(token) # 0
                         THEN [r EXCEPT !.pc = "done", !.resp = authenticateToken(token)]
                       ELSE IF InvalidStatus(status)
                         THEN [r EXCEPT !.pc = "done", !.resp = 400]
                       ELSE [r EXCEPT !.pc = "select_task"]]
          /\ published' = published \o ev
    /\ UNCHANGED <<dbVars, commits, cacheVars, socketVars, histVars, aloneVars>>

\* POST /tasks/:task_id/comments up to its first await
CommentRequest(c, token, task) ==
    /\ Free(c)
    /\ nreq < MaxRequests
    /\ Len(db_comments) + PendingComments < MaxComments
    /\ nreq' = nreq + 1
    /\ LET ev == IF authenticateToken(token) = 0
                   THEN CommentHandlerEmits("received", task, 0) ELSE <<>>
           r == [IdleReq EXCEPT !.kind = "comment", !.token = token, !.task = task,
                                !.emitted = Len(ev)]
       IN /\ req' = [req EXCEPT ![c] =
                       IF authenticateToken(token) # 0
                         THEN [r EXCEPT !.pc = "done", !.resp = authenticateToken(token)]
                       ELSE [r EXCEPT !.pc = "select_task"]]
          /\ published' = published \o ev
    /\ UNCHANGED <<dbVars, commits, cacheVars, socketVars, histVars, aloneVars>>

\* SELECT * FROM tasks WHERE id = $1
SelectTask(c, ok) ==
    /\ req[c].pc = "select_task"
    /\ LET r == [req[c] EXCEPT !.queries = @ + 1]
       IN req' = [req EXCEPT ![c] =
                    IF ~ok THEN [r EXCEPT !.pc = "done", !.resp = 500]
                    ELSE IF r.task \notin TaskIds THEN [r EXCEPT !.pc = "done", !.resp = 404]
                    ELSE [r EXCEPT !.pc = "select_access", !.ws = TaskWorkspace[r.task]]]
    /\ UNCHANGED <<dbVars, nreq, published, commits, cacheVars, socketVars, histVars, aloneVars>>

\* SELECT * FROM workspace_users WHERE workspace_id = $1 AND user_id = $2
SelectAccess(c, ok) ==
    /\ req[c].pc = "select_access"
    /\ LET r == [req[c] EXCEPT !.queries = @ + 1]
       IN req' = [req EXCEPT ![c] =
                    IF ~ok THEN [r EXCEPT !.pc = "done", !.resp = 500]
                    ELSE [r EXCEPT !.pc = "select_owner",
                                   !.member = (<<r.ws, r.token>> \in WorkspaceUsers)]]
    /\ UNCHANGED <<dbVars, nreq, published, commits, cacheVars, socketVars, histVars, aloneVars>>

\* SELECT owner_id FROM workspaces WHERE id = $1, then the authorization test
SelectOwner(c, ok) ==
    /\ req[c].pc = "select_owner"
    /\ LET r == [req[c] EXCEPT !.queries = @ + 1]
           owner == WorkspaceOwner[r.ws]
           forbidden ==
               CASE r.kind = "status" ->
                      StatusForbidden(Role[r.token], r.member, TRUE, owner = r.token)
                 [] r.kind = "put" -> UpdateForbidden(r.member, TRUE, owner = r.token)
                 [] OTHER -> CommentForbidden(Role[r.token], r.member, owner = r.token)
       IN req' = [req EXCEPT ![c] =
                    IF ~ok THEN [r EXCEPT !.pc = "done", !.resp = 500]
                    ELSE IF forbidden THEN [r EXCEPT !.pc = "done", !.resp = 403, !.owner = owner]
                    ELSE [r EXCEPT !.owner = owner,
                                   !.pc = CASE r.kind = "status" -> "update"
                                            [] r.kind = "put" -> "put_update"
                                            [] OTHER -> "insert_comment"]]
    /\ UNCHANGED <<dbVars, nreq, published, commits, cacheVars, socketVars, histVars, aloneVars>>

\* UPDATE tasks SET status=$1, updated_at = CURRENT_TIMESTAMP WHERE id=$2
UpdateStatus(c, ok) ==
    /\ req[c].pc = "update"
    /\ LET done == ok /\ ColumnsExist("tasks", StatusUpdateColumns)
                      /\ StatusCheckConstraint(req[c].status)
           ev == IF done THEN StatusHandlerEmits("updated", req[c].task, req[c].status)
                 ELSE <<>>
           r == [req[c] EXCEPT !.queries = @ + 1, !.emitted = @ + Len(ev)]
       IN /\ req' = [req EXCEPT ![c] =
                       IF done THEN [r EXCEPT !.pc = "insert_activity", !.wrote = TRUE]
                       ELSE [r EXCEPT !.pc = "done", !.resp = 500]]
          /\ db_status' = IF done THEN [db_status EXCEPT ![r.task] = r.status] ELSE db_status
          /\ commits' = IF done THEN commits \cup {[task |-> r.task, status |-> r.status]}
                        ELSE commits
          /\ published' = published \o ev
          /\ watched' = IF done
                          THEN [watched EXCEPT ![req[c].task] = Connected(req[c].task)]
                          ELSE watched
          /\ link' = IF ~done THEN link
                     ELSE CASE link = "dropped" -> "missed"
                            [] link = "restored" -> "new"
                            [] OTHER -> link
          /\ raced' = IF done /\ \E d \in Conns \ {c} :
                                     /\ req[d].kind = "status" /\ req[d].task = req[c].task
                                     /\ req[d].wrote /\ ~Free(d)
                        THEN req[c].task
                        ELSE raced
    /\ UNCHANGED <<db_activity, db_comments, nreq, cacheVars, socketVars, aloneVars>>

\* INSERT INTO task_activity (task_id, user_id, action, description, timestamp), then res.json
InsertActivity(c, ok) ==
    /\ req[c].pc = "insert_activity"
    /\ LET done == ok /\ ColumnsExist("task_activity", ActivityInsertColumns)
           ev == IF done THEN StatusHandlerEmits("logged", req[c].task, req[c].status)
                 ELSE <<>>
           r == [req[c] EXCEPT !.queries = @ + 1, !.emitted = @ + Len(ev)]
       IN /\ req' = [req EXCEPT ![c] =
                       IF done THEN [r EXCEPT !.pc = "done", !.resp = 200, !.logged = TRUE]
                       ELSE [r EXCEPT !.pc = "done", !.resp = 500]]
          /\ db_activity' = IF done
                              THEN db_activity \cup {[task_id |-> r.task, user_id |-> r.token,
                                                      action |-> "status_changed"]}
                              ELSE db_activity
          /\ published' = published \o ev
    /\ UNCHANGED <<db_status, db_comments, nreq, commits, cacheVars, socketVars, histVars, aloneVars>>

\* INSERT INTO comments (...) RETURNING *, then res.json
InsertComment(c, ok) ==
    /\ req[c].pc = "insert_comment"
    /\ LET done == ok /\ ColumnsExist("comments", CommentInsertColumns)
           id == Len(db_comments) + 1
           ev == IF done THEN CommentHandlerEmits("inserted", req[c].task, id) ELSE <<>>
           r == [req[c] EXCEPT !.queries = @ + 1, !.emitted = @ + Len(ev)]
       IN /\ req' = [req EXCEPT ![c] =
                       IF done THEN [r EXCEPT !.pc = "done", !.resp = 200, !.wrote = TRUE]
                       ELSE [r EXCEPT !.pc = "done", !.resp = 500]]
          /\ db_comments' = IF done
                              THEN Append(db_comments, [id |-> id, task_id |-> r.task,
                                                        user_id |-> r.token])
                              ELSE db_comments
          /\ published' = published \o ev
    /\ UNCHANGED <<db_status, db_activity, nreq, commits, cacheVars, socketVars, histVars, aloneVars>>

Server ==
    \E c \in Conns :
        \/ \E token \in Tokens, task \in ReqTasks, status \in ReqStatuses :
               StatusRequest(c, token, task, status)
        \/ \E token \in Tokens, task \in ReqTasks : CommentRequest(c, token, task)
        \/ \E ok \in BOOLEAN : SelectTask(c, ok)
        \/ \E ok \in BOOLEAN : SelectAccess(c, ok)
        \/ \E ok \in BOOLEAN : SelectOwner(c, ok)
        \/ \E ok \in BOOLEAN : UpdateStatus(c, ok)
        \/ \E ok \in BOOLEAN : InsertActivity(c, ok)
        \/ \E ok \in BOOLEAN : InsertComment(c, ok)

----------------------------------------------------------------------------
\* Further request handlers: favorites, PUT /tasks/:task_id, POST /tasks

\* The status a PUT or POST body carries; Null stands for a body without one
BodyStatuses == {Null, "Completed", "Archived"}

\* POST /tasks/:task_id/favorite up to its first await
FavoriteRequest(c, token, task) ==
    /\ Free(c)
    /\ nreq < MaxRequests
    /\ nreq' = nreq + 1
    /\ LET r == [IdleReq EXCEPT !.kind = "favorite", !.token = token, !.task = task]
       IN req' = [req EXCEPT ![c] =
                    IF authenticateToken(token) # 0
                      THEN [r EXCEPT !.pc = "done", !.resp = authenticateToken(token)]
                    ELSE [r EXCEPT !.pc = "select_favorite"]]
    /\ UNCHANGED <<dbVars, published, commits, cacheVars, socketVars, histVars, aloneVars>>

\* SELECT * FROM task_favorites WHERE user_id=$1 AND task_id=$2; a row found
\* goes straight to res.json
SelectFavorite(c, ok) ==
    /\ req[c].pc = "select_favorite"
    /\ LET r == [req[c] EXCEPT !.queries = @ + 1]
       IN req' = [req EXCEPT ![c] =
                    IF ~ok THEN [r EXCEPT !.pc = "done", !.resp = 500, !.error = "failed"]
                    ELSE IF <<r.token, r.task>> \in db_favorites
                      THEN [r EXCEPT !.pc = "done", !.resp = 200]
                    ELSE [r EXCEPT !.pc = "insert_favorite"]]
    /\ UNCHANGED <<dbVars, nreq, published, commits, cacheVars, socketVars, histVars, aloneVars>>

\* INSERT INTO task_favorites (user_id, task_id), under the table's primary key
\* and its reference to tasks(id), then res.json; the catch answers 500 with
\* err.message
InsertFavorite(c, ok) ==
    /\ req[c].pc = "insert_favorite"
    /\ LET row == <<req[c].token, req[c].task>>
           done == ok /\ row \notin db_favorites /\ req[c].task \in TaskIds
           message == IF ~ok THEN "failed"
                      ELSE IF row \in db_favorites THEN "duplicate key"
                      ELSE "foreign key"
           r == [req[c] EXCEPT !.queries = @ + 1]
       IN /\ req' = [req EXCEPT ![c] =
                       IF done THEN [r EXCEPT !.pc = "done", !.resp = 200, !.wrote = TRUE]
                       ELSE [r EXCEPT !.pc = "done", !.resp = 500, !.error = message]]
          /\ db_favorites' = IF done THEN db_favorites \cup {row} ELSE db_favorites
    /\ UNCHANGED <<dbVars, nreq, published, commits, cacheVars, socketVars, histVars,
                   sockets, last_update, partVars, writes, wsVars>>

\* DELETE /tasks/:task_id/favorite up to its first await
UnfavoriteRequest(c, token, task) ==
    /\ Free(c)
    /\ nreq < MaxRequests
    /\ nreq' = nreq + 1
    /\ LET r == [IdleReq EXCEPT !.kind = "unfavorite", !.token = token, !.task = task]
       IN req' = [req EXCEPT ![c] =
                    IF authenticateToken(token) # 0
                      THEN [r EXCEPT !.pc = "done", !.resp = authenticateToken(token)]
                    ELSE [r EXCEPT !.pc = "delete_favorite"]]
    /\ UNCHANGED <<dbVars, published, commits, cacheVars, socketVars, histVars, aloneVars>>

\* DELETE FROM task_favorites WHERE user_id=$1 AND task_id=$2, then res.json
DeleteFavorite(c, ok) ==
    /\ req[c].pc = "delete_favorite"
    /\ LET row == <<req[c].token, req[c].task>>
           r == [req[c] EXCEPT !.queries = @ + 1]
       IN /\ req' = [req EXCEPT ![c] =
                       IF ok THEN [r EXCEPT !.pc = "done", !.resp = 200,
                                            !.wrote = (row \in db_favorites)]
                       ELSE [r EXCEPT !.pc = "done", !.resp = 500]]
          /\ db_favorites' = IF ok THEN db_favorites \ {row} ELSE db_favorites
    /\ UNCHANGED <<dbVars, nreq, published, commits, cacheVars, socketVars, histVars,
                   sockets, last_update, partVars, writes, wsVars>>

\* PUT /tasks/:task_id up to its first await; SelectTask, SelectAccess and
\* SelectOwner follow
PutRequest(c, token, task, status) ==
    /\ Free(c)
    /\ nreq < MaxRequests
    /\ nreq' = nreq + 1
    /\ LET r == [IdleReq EXCEPT !.kind = "put", !.token = token, !.task = task,
                                !.status = status]
       IN req' = [req EXCEPT ![c] =
                    IF authenticateToken(token) # 0
                      THEN [r EXCEPT !.pc = "done", !.resp = authenticateToken(token)]
                    ELSE [r EXCEPT !.pc = "select_task"]]
    /\ UNCHANGED <<dbVars, published, commits, cacheVars, socketVars, histVars, aloneVars>>

\* UPDATE tasks SET ..., status = $n, updated_at = CURRENT_TIMESTAMP WHERE id = $m,
\* with the status of the body when it has one; the catch answers 500
PutUpdate(c, ok) ==
    /\ req[c].pc = "put_update"
    /\ LET status == req[c].status
           done == ok /\ (status = Null \/ StatusCheckConstraint(status))
           r == [req[c] EXCEPT !.queries = @ + 1]
       IN /\ req' = [req EXCEPT ![c] =
                       IF done THEN [r EXCEPT !.pc = "put_return", !.wrote = TRUE]
                       ELSE [r EXCEPT !.pc = "done", !.resp = 500]]
          /\ writes' = IF status # Null
                         THEN writes \cup {[entry |-> "put", status |-> status,
                                            accepted |-> done]}
                         ELSE writes
          /\ db_status' = IF done /\ status # Null
                            THEN [db_status EXCEPT ![r.task] = status] ELSE db_status
          /\ commits' = IF done /\ status # Null
                          THEN commits \cup {[task |-> r.task, status |-> status]}
                          ELSE commits
    /\ UNCHANGED <<db_activity, db_comments, nreq, published, cacheVars, socketVars,
                   histVars, sockets, last_update, partVars, db_favorites, wsVars>>

\* SELECT * FROM tasks WHERE id = $1, then res.json
PutReturn(c, ok) ==
    /\ req[c].pc = "put_return"
    /\ req' = [req EXCEPT ![c] = [@ EXCEPT !.queries = @ + 1, !.pc = "done",
                                           !.resp = IF ok THEN 200 ELSE 500]]
    /\ UNCHANGED <<dbVars, nreq, published, commits, cacheVars, socketVars, histVars, aloneVars>>

\* POST /tasks up to its first await
CreateRequest(c, token, ws, status) ==
    /\ Free(c)
    /\ nreq < MaxRequests
    /\ nreq' = nreq + 1
    /\ LET r == [IdleReq EXCEPT !.kind = "create", !.token = token, !.ws = ws,
                                !.status = status]
       IN req' = [req EXCEPT ![c] =
                    IF authenticateToken(token) # 0
                      THEN [r EXCEPT !.pc = "done", !.resp = authenticateToken(token)]
                    ELSE [r EXCEPT !.pc = "create_access"]]
    /\ UNCHANGED <<dbVars, published, commits, cacheVars, socketVars, histVars, aloneVars>>

\* SELECT role FROM workspace_users ...: a member has access, for anyone else
\* the owner is read next
CreateAccess(c, ok) ==
    /\ req[c].pc = "create_access"
    /\ LET r == [req[c] EXCEPT !.queries = @ + 1]
           isMember == <<r.ws, r.token>> \in WorkspaceUsers
       IN req' = [req EXCEPT ![c] =
                    IF ~ok THEN [r EXCEPT !.pc = "done", !.resp = 500]
                    ELSE IF isMember THEN [r EXCEPT !.member = TRUE, !.pc = "create_insert"]
                    ELSE [r EXCEPT !.pc = "create_owner"]]
    /\ UNCHANGED <<dbVars, nreq, published, commits, cacheVars, socketVars, histVars, aloneVars>>

\* SELECT owner_id FROM workspaces WHERE id = $1, then the hasAccess test
CreateOwner(c, ok) ==
    /\ req[c].pc = "create_owner"
    /\ LET r == [req[c] EXCEPT !.queries = @ + 1, !.owner = WorkspaceOwner[req[c].ws]]
       IN req' = [req EXCEPT ![c] =
                    IF ~ok THEN [req[c] EXCEPT !.queries = @ + 1, !.pc = "done", !.resp = 500]
                    ELSE IF r.owner # r.token THEN [r EXCEPT !.pc = "done", !.resp = 403]
                    ELSE [r EXCEPT !.pc = "create_insert"]]
    /\ UNCHANGED <<dbVars, nreq, published, commits, cacheVars, socketVars, histVars, aloneVars>>

\* BEGIN; INSERT INTO tasks (..., status, ...) with status || 'Pending'; the
\* catch sends ROLLBACK and answers 500
CreateInsert(c, ok) ==
    /\ req[c].pc = "create_insert"
    /\ LET taskStatus == IF req[c].status = Null THEN "Pending" ELSE req[c].status
           done == ok /\ StatusCheckConstraint(taskStatus)
           r == [req[c] EXCEPT !.queries = @ + 1, !.status = taskStatus]
       IN /\ req' = [req EXCEPT ![c] =
                       IF done THEN [r EXCEPT !.pc = "create_commit"]
                       ELSE [r EXCEPT !.pc = "done", !.resp = 500]]
          /\ writes' = writes \cup {[entry |-> "create", status |-> taskStatus,
                                     accepted |-> done]}
    /\ UNCHANGED <<dbVars, nreq, published, commits, cacheVars, socketVars, histVars,
                   sockets, last_update, partVars, db_favorites, wsVars>>

\* COMMIT, then res.json; the new task's id is a fresh uuid
CreateCommit(c, ok) ==
    /\ req[c].pc = "create_commit"
    /\ req' = [req EXCEPT ![c] =
                 IF ok THEN [@ EXCEPT !.queries = @ + 1, !.pc = "done", !.resp = 200,
                                      !.wrote = TRUE]
                 ELSE [@ EXCEPT !.queries = @ + 1, !.pc = "done", !.resp = 500]]
    /\ commits' = IF ok THEN commits \cup {[task |-> "uuid", status |-> req[c].status]}
                  ELSE commits
    /\ UNCHANGED <<dbVars, nreq, published, cacheVars, socketVars, histVars, aloneVars>>

Api ==
    \/ \E c \in Conns, token \in Tokens, task \in ReqTasks : FavoriteRequest(c, token, task)
    \/ \E c \in Conns, ok \in BOOLEAN : SelectFavorite(c, ok)
    \/ \E c \in Conns, ok \in BOOLEAN : InsertFavorite(c, ok)
    \/ \E c \in Conns, token \in Tokens, task \in ReqTasks : UnfavoriteRequest(c, token, task)
    \/ \E c \in Conns, ok \in BOOLEAN : DeleteFavorite(c, ok)
    \/ \E c \in Conns, token \in Tokens, task \in ReqTasks, status \in BodyStatuses :
           PutRequest(c, token, task, status)
    \/ \E c \in Conns, ok \in BOOLEAN : SelectTask(c, ok)
    \/ \E c \in Conns, ok \in BOOLEAN : SelectAccess(c, ok)
    \/ \E c \in Conns, ok \in BOOLEAN : SelectOwner(c, ok)
    \/ \E c \in Conns, ok \in BOOLEAN : PutUpdate(c, ok)
    \/ \E c \in Conns, ok \in BOOLEAN : PutReturn(c, ok)
    \/ \E c \in Conns, token \in Tokens, ws \in Workspaces, status \in BodyStatuses :
           CreateRequest(c, token, ws, status)
    \/ \E c \in Conns, ok \in BOOLEAN : CreateAccess(c, ok)
    \/ \E c \in Conns, ok \in BOOLEAN : CreateOwner(c, ok)
    \/ \E c \in Conns, ok \in BOOLEAN : CreateInsert(c, ok)
    \/ \E c \in Conns, ok \in BOOLEAN : CreateCommit(c, ok)

ApiSpec == Init /\ [][Api]_vars

----------------------------------------------------------------------------
\* Workspace creation: POST /workspaces over the connection pool

MaxClients == 2

ClientNames == <<"A", "B", "C">>

\* The ids the SERIAL column of workspaces gives, in order
WorkspaceIds == <<"w1", "w2", "w3">>

NewClient == [tx |-> "none", workspaces |-> {}, members |-> {}]

\* POST /workspaces up to its first await; the new row's id stands for the
\* value the SERIAL column will give it
WorkspaceRequest(c, token) ==
    /\ Free(c)
    /\ nreq < MaxRequests
    /\ nreq' = nreq + 1
    /\ LET r == [IdleReq EXCEPT !.kind = "workspace", !.token = token, !.ws = WorkspaceIds[nreq + 1]]
       IN req' = [req EXCEPT ![c] =
                    IF authenticateToken(token) # 0
                      THEN [r EXCEPT !.pc = "done", !.resp = authenticateToken(token)]
                    ELSE [r EXCEPT !.pc = "begin"]]
    /\ UNCHANGED <<dbVars, published, commits, cacheVars, socketVars, histVars, aloneVars>>

\* pool.connect(), inside queryDB and inside pool.query: the request gets the
\* idle client released last, or a new client when none is idle and the pool
\* is not full; it waits otherwise
PoolConnect(c) ==
    /\ req[c].kind = "workspace"
    /\ ~Free(c)
    /\ req[c].client = Null
    /\ IF idle # <<>>
         THEN /\ req' = [req EXCEPT ![c].client = idle[Len(idle)]]
              /\ idle' = SubSeq(idle, 1, Len(idle) - 1)
              /\ pool' = pool
         ELSE /\ Len(pool) < MaxClients
              /\ req' = [req EXCEPT ![c].client = ClientNames[Len(pool) + 1]]
              /\ pool' = Append(pool, NewClient)
              /\ idle' = idle
    /\ UNCHANGED <<dbVars, nreq, published, commits, cacheVars, socketVars, histVars,
                   sockets, last_update, partVars, apiVars, db_workspaces, db_members>>

\* The index in pool of the client the request holds
Held(c) == CHOOSE k \in DOMAIN pool : ClientNames[k] = req[c].client

\* client.release()
Release(c) == idle' = Append(idle, req[c].client)

\* pool.query('BEGIN') on the client it got
Begin(c) ==
    /\ req[c].pc = "begin"
    /\ req[c].client # Null
    /\ pool' = [pool EXCEPT ![Held(c)].tx = IF @ = "none" THEN "open" ELSE @]
    /\ Release(c)
    /\ req' = [req EXCEPT ![c] = [@ EXCEPT !.queries = @ + 1, !.client = Null,
                                           !.pc = "insert_workspace"]]
    /\ UNCHANGED <<dbVars, nreq, published, commits, cacheVars, socketVars, histVars,
                   sockets, last_update, partVars, apiVars, db_workspaces, db_members>>

\* queryDB(INSERT INTO workspaces ... RETURNING ...) on the client it got: the
\* row is committed at once on a client with no transaction open, and waits
\* for the COMMIT of that client otherwise
InsertWorkspace(c, ok) ==
    /\ req[c].pc = "insert_workspace"
    /\ req[c].client # Null
    /\ LET k == Held(c)
           done == ok /\ pool[k].tx # "aborted"
           r == [req[c] EXCEPT !.queries = @ + 1, !.client = Null]
       IN /\ req' = [req EXCEPT ![c] =
                       IF done THEN [r EXCEPT !.pc = "insert_member"]
                       ELSE [r EXCEPT !.pc = "rollback"]]
          /\ pool' = IF done /\ pool[k].tx = "open"
                       THEN [pool EXCEPT ![k].workspaces = @ \cup {r.ws}]
                     ELSE IF ~done /\ pool[k].tx = "open"
                       THEN [pool EXCEPT ![k].tx = "aborted"]
                     ELSE pool
          /\ db_workspaces' = IF done /\ pool[k].tx = "none"
                                THEN db_workspaces \cup {r.ws} ELSE db_workspaces
    /\ Release(c)
    /\ UNCHANGED <<dbVars, nreq, published, commits, cacheVars, socketVars, histVars,
                   sockets, last_update, partVars, apiVars, db_members>>

\* queryDB(INSERT INTO workspace_users ...) on the client it got, under the
\* reference to workspaces(id): the workspace row must be committed or be of
\* this client's own transaction
InsertMember(c, ok) ==
    /\ req[c].pc = "insert_member"
    /\ req[c].client # Null
    /\ LET k == Held(c)
           referenced == req[c].ws \in db_workspaces \cup pool[k].workspaces
           done == ok /\ pool[k].tx # "aborted" /\ referenced
           r == [req[c] EXCEPT !.queries = @ + 1, !.client = Null]
       IN /\ req' = [req EXCEPT ![c] =
                       IF done THEN [r EXCEPT !.pc = "commit"]
                       ELSE [r EXCEPT !.pc = "rollback"]]
          /\ pool' = IF done /\ pool[k].tx = "open"
                       THEN [pool EXCEPT ![k].members = @ \cup {r.ws}]
                     ELSE IF ~done /\ pool[k].tx = "open"
                       THEN [pool EXCEPT ![k].tx = "aborted"]
                     ELSE pool
          /\ db_members' = IF done /\ pool[k].tx = "none"
                             THEN db_members \cup {r.ws} ELSE db_members
    /\ Release(c)
    /\ UNCHANGED <<dbVars, nreq, published, commits, cacheVars, socketVars, histVars,
                   sockets, last_update, partVars, apiVars, db_workspaces>>

\* pool.query('COMMIT') on the client it got, then res.json: the rows of that
\* client's transaction become durable (none when it was aborted)
Commit(c) ==
    /\ req[c].pc = "commit"
    /\ req[c].client # Null
    /\ LET k == Held(c)
       IN /\ pool' = [pool EXCEPT ![k] = NewClient]
          /\ db_workspaces' = IF pool[k].tx = "open"
                                THEN db_workspaces \cup pool[k].workspaces
                                ELSE db_workspaces
          /\ db_members' = IF pool[k].tx = "open"
                             THEN db_members \cup pool[k].members ELSE db_members
    /\ Release(c)
    /\ req' = [req EXCEPT ![c] = [@ EXCEPT !.queries = @ + 1, !.client = Null,
                                           !.pc = "done", !.resp = 200, !.wrote = TRUE]]
    /\ UNCHANGED <<dbVars, nreq, published, commits, cacheVars, socketVars, histVars,
                   sockets, last_update, partVars, apiVars>>

\* catch: pool.query('ROLLBACK') on the client it got, then res.status(500)
Rollback(c) ==
    /\ req[c].pc = "rollback"
    /\ req[c].client # Null
    /\ pool' = [pool EXCEPT ![Held(c)] = NewClient]
    /\ Release(c)
    /\ req' = [req EXCEPT ![c] = [@ EXCEPT !.queries = @ + 1, !.client = Null,
                                           !.pc = "done", !.resp = 500]]
    /\ UNCHANGED <<dbVars, nreq, published, commits, cacheVars, socketVars, histVars,
                   sockets, last_update, partVars, apiVars, db_workspaces, db_members>>

CreateWorkspace ==
    \/ \E c \in Conns, token \in {"none", "user1", "user2"} : WorkspaceRequest(c, token)
    \/ \E c \in Conns : PoolConnect(c)
    \/ \E c \in Conns : Begin(c)
    \/ \E c \in Conns, ok \in BOOLEAN : InsertWorkspace(c, ok)
    \/ \E c \in Conns, ok \in BOOLEAN : InsertMember(c, ok)
    \/ \E c \in Conns : Commit(c)
    \/ \E c \in Conns : Rollback(c)

WorkspaceSpec == Init /\ [][CreateWorkspace]_vars

----------------------------------------------------------------------------
\* Client store: values handled by use_app_store

StoreStatuses == {"Pending", "Completed"}

Timestamps == 0 .. MaxTs

CommentIds == {1, 2}

NotificationIds == {"n1", "n2"}

\* Comment (with the task_id the server's responses and events carry)
Comments == [comment_id : CommentIds, task_id : TaskIds]

\* Task, reduced to the fields the store's handlers read or write
StoreTasks == [task_id : TaskIds, status : StoreStatuses, updated_at : Timestamps,
               comments : {<<>>}, activity_log : {<<>>}]

Notifications == [notification_id : NotificationIds, is_read : BOOLEAN]

\* Payloads of the realtime events the store listens for
StatusPayloads == [task_id : TaskIds, status : StoreStatuses, timestamp : Timestamps]

CommentPayloads == Comments

\* Activity, reduced to its key and its time
ActivityPayloads == [activity_id : {1, 2}, timestamp : Timestamps]

RECURSIVE SeqsUpTo(_, _)
\* All sequences over S of length at most n
SeqsUpTo(S, n) ==
    IF n = 0 THEN {<<>>}
    ELSE LET shorter == SeqsUpTo(S, n - 1)
         IN shorter \cup {Append(q, x) : q \in {r \in shorter : Len(r) = n - 1}, x \in S}

Distinct(q, key) == \A i, j \in DOMAIN q : i # j => q[i][key] # q[j][key]

\* Lists a caller hands to the setters: rows keyed by their primary key
TaskLists == {q \in SeqsUpTo(StoreTasks, MaxListLen) : Distinct(q, "task_id")}

NotificationLists == {q \in SeqsUpTo(Notifications, MaxListLen) : Distinct(q, "notification_id")}

\* The comments of task t, as a fetch or the caller's own request results give them
CommentLists(t) ==
    {q \in SeqsUpTo({cm \in Comments : cm.task_id = t}, MaxListLen - 1) : Distinct(q, "comment_id")}

CurrentTasks ==
    UNION {{[task_id |-> t.task_id, status |-> t.status, updated_at |-> t.updated_at,
             comments |-> cs, activity_log |-> t.activity_log] :
                cs \in CommentLists(t.task_id)} : t \in StoreTasks}

\* q.findIndex(x => x[key] === value), 1-based; 0 where JavaScript gives -1
findIndex(q, key, value) ==
    IF \E i \in DOMAIN q : q[i][key] = value
      THEN CHOOSE i \in DOMAIN q :
               q[i][key] = value /\ \A j \in 1 .. (i - 1) : q[j][key] # value
      ELSE 0

\* Object spread { ...obj, ...upd }
Spread(obj, upd) ==
    [k \in (DOMAIN obj) \cup (DOMAIN upd) |-> IF k \in DOMAIN upd THEN upd[k] ELSE obj[k]]

\* The persisted part of the store the handlers work on
Cache == [tasks |-> tasks, current_task |-> current_task, notifications |-> notifications]

\* Faulty variant: the payload is always pushed
handle_notification_update_push(c, payload) ==
    [c EXCEPT !.notifications = Append(c.notifications, payload)]

handle_notification_update(c, payload) ==
    LET index == findIndex(c.notifications, "notification_id", payload.notification_id)
    IN [c EXCEPT !.notifications =
            IF index >= 1 THEN [c.notifications EXCEPT ![index] = payload]
            ELSE Append(c.notifications, payload)]

\* Faulty variant: the comment is appended whatever task it is for
handle_comment_created_anyTask(c, payload) ==
    IF c.current_task = NullTask THEN c
    ELSE [c EXCEPT !.current_task =
            Spread(c.current_task, [comments |-> Append(c.current_task.comments, payload)])]

handle_comment_created(c, payload) ==
    IF c.current_task = NullTask \/ c.current_task.task_id # payload.task_id THEN c
    ELSE [c EXCEPT !.current_task =
            Spread(c.current_task, [comments |-> Append(c.current_task.comments, payload)])]

\* Faulty variant: only the list is updated
handle_task_status_updated_listOnly(c, payload) ==
    LET index == findIndex(c.tasks, "task_id", payload.task_id)
        upd == [status |-> payload.status, updated_at |-> payload.timestamp]
    IN IF index >= 1
         THEN [c EXCEPT !.tasks = [c.tasks EXCEPT ![index] = Spread(c.tasks[index], upd)]]
         ELSE c

handle_task_status_updated(c, payload) ==
    LET index == findIndex(c.tasks, "task_id", payload.task_id)
        upd == [status |-> payload.status, updated_at |-> payload.timestamp]
        c1 == IF index >= 1
                THEN [c EXCEPT !.tasks = [c.tasks EXCEPT ![index] = Spread(c.tasks[index], upd)]]
                ELSE c
    IN IF c1.current_task # NullTask /\ c1.current_task.task_id = payload.task_id
         THEN [c1 EXCEPT !.current_task = Spread(c1.current_task, upd)]
         ELSE c1

handle_task_reordered(c, payload) == c

handle_activity_stream(c, payload) == c

----------------------------------------------------------------------------
\* Client store actions

SetCache(c) ==
    /\ tasks' = c.tasks
    /\ current_task' = c.current_task
    /\ notifications' = c.notifications

set_tasks(ts) ==
    /\ SetCache([Cache EXCEPT !.tasks = ts])
    /\ UNCHANGED <<serverVars, socketVars, histVars, aloneVars>>

set_current_task(t) ==
    /\ SetCache([Cache EXCEPT !.current_task = t])
    /\ UNCHANGED <<serverVars, socketVars, histVars, aloneVars>>

set_notifications(ns) ==
    /\ SetCache([Cache EXCEPT !.notifications = ns])
    /\ UNCHANGED <<serverVars, socketVars, histVars, aloneVars>>

\* socket.on('notification_update', ...)
OnNotificationUpdate(payload) ==
    /\ Len(notifications) < MaxListLen \/ \E n \in DOMAIN notifications :
                                             notifications[n].notification_id = payload.notification_id
    /\ SetCache(handle_notification_update(Cache, payload))
    /\ UNCHANGED <<serverVars, socketVars, histVars, aloneVars>>

\* socket.on('comment_created', ...)
OnCommentCreated(payload) ==
    /\ current_task # NullTask => Len(current_task.comments) < MaxListLen
    /\ SetCache(handle_comment_created(Cache, payload))
    /\ UNCHANGED <<serverVars, socketVars, histVars, aloneVars>>

\* socket.on('task_status_updated', ...)
OnTaskStatusUpdated(payload) ==
    /\ SetCache(handle_task_status_updated(Cache, payload))
    /\ UNCHANGED <<serverVars, socketVars, histVars, aloneVars>>

\* socket.on('task_reorder', ...)
OnTaskReorder(payload) ==
    /\ SetCache(handle_task_reordered(Cache, payload))
    /\ UNCHANGED <<serverVars, socketVars, histVars, aloneVars>>

\* socket.on('activity/stream', ...)
OnActivityStream(payload) ==
    /\ SetCache(handle_activity_stream(Cache, payload))
    /\ UNCHANGED <<serverVars, socketVars, histVars, aloneVars>>

Store ==
    \/ \E ts \in TaskLists : set_tasks(ts)
    \/ \E t \in CurrentTasks \cup {NullTask} : set_current_task(t)
    \/ \E ns \in NotificationLists : set_notifications(ns)
    \/ \E payload \in Notifications : OnNotificationUpdate(payload)
    \/ \E payload \in CommentPayloads : OnCommentCreated(payload)
    \/ \E payload \in StatusPayloads : OnTaskStatusUpdated(payload)
    \/ \E payload \in SeqsUpTo(TaskIds, 1) : OnTaskReorder(payload)
    \/ \E payload \in ActivityPayloads : OnActivityStream(payload)

StoreSpec == Init /\ [][Store]_vars

\* The event names init_socket registers listeners for
Listeners ==
    {"notification_update", "comment_created", "task_status_updated", "task_reorder",
     "activity/stream"}

\* The payload fields the task_status_updated listener reads
StatusPayloadFields == {"task_id", "status", "timestamp"}

----------------------------------------------------------------------------
\* The store next to the server: its socket and the task list it is given

\* The tasks table as a task list, in the shape of the store's Task
TaskRows ==
    [i \in 1 .. 2 |->
        LET t == IF i = 1 THEN "task1" ELSE "task3"
        IN [task_id |-> t, workspace_id |-> TaskWorkspace[t], status |-> db_status[t]]]

\* set_tasks with the task list as stored at this moment
LoadTasks ==
    /\ SetCache([Cache EXCEPT !.tasks = TaskRows])
    /\ link' = CASE link = "restored" -> "new"
                [] link = "missed" -> "dropped"
                [] OTHER -> link
    /\ UNCHANGED <<serverVars, socketVars, watched, raced, aloneVars>>

\* init_socket with a token the server accepts (what it does with other tokens
\* is followed in SocketSpec)
init_socket(token) ==
    /\ token # "none"
    /\ socket' = token
    /\ socket_connected' = FALSE
    /\ UNCHANGED <<serverVars, cacheVars>>
    /\ watched' = [t \in TaskIds |-> FALSE]
    /\ link' = "new"
    /\ UNCHANGED <<raced, aloneVars>>

\* socket.on('connect', ...)
OnConnect ==
    /\ socket # Null
    /\ ~socket_connected
    /\ socket_connected' = TRUE
    /\ link' = CASE link = "missed" -> "restored"
                [] link = "dropped" -> "new"
                [] OTHER -> link
    /\ UNCHANGED <<serverVars, cacheVars, socket, watched, raced, aloneVars>>

\* socket.on('disconnect', ...)
OnDisconnect ==
    /\ socket # Null
    /\ socket_connected
    /\ socket_connected' = FALSE
    /\ UNCHANGED <<serverVars, cacheVars, socket>>
    /\ watched' = [t \in TaskIds |-> FALSE]
    /\ link' = "dropped"
    /\ UNCHANGED <<raced, aloneVars>>

disconnect_socket ==
    /\ socket # Null
    /\ socket' = Null
    /\ socket_connected' = FALSE
    /\ UNCHANGED <<serverVars, cacheVars>>
    /\ watched' = [t \in TaskIds |-> FALSE]
    /\ link' = "new"
    /\ UNCHANGED <<raced, aloneVars>>

Client ==
    \/ LoadTasks
    \/ \E token \in {"none", "user2"} : init_socket(token)
    \/ OnConnect
    \/ OnDisconnect
    \/ disconnect_socket

Next == Server \/ Client

Spec == Init /\ [][Next]_vars

----------------------------------------------------------------------------
\* Socket connections: the sockets the store creates, the sockets of other
\* clients, and the server's connection handler with its rooms

MaxSockets == 3

SocketNames == <<"s1", "s2", "s3", "s4", "s5">>

\* Faulty variant: one room for every user
UserRoom_shared(u) == "user_undefined"

\* `user_${user.user_id}`
UserRoom(u) ==
    CASE u = "user1" -> "user_user1"
      [] u = "user2" -> "user_user2"
      [] u = "user4" -> "user_user4"
      [] OTHER -> "user_undefined"

\* Faulty variant: socket.disconnect() closes the client side only
CloseByClient_clientOnly(sock) == [sock EXCEPT !.client = "closed"]

\* Faulty variant: the token is decoded without being verified
ConnectionUser_unverified(token) == IF token = "none" THEN Null ELSE token

\* The user the connection handler finds in the handshake: none when the token is
\* missing (!token) or when jwt.verify reports an error
ConnectionUser(token) ==
    IF token = "none" THEN Null
    ELSE IF token \notin Users THEN Null
    ELSE token

\* Position of the store in the connection lifecycle
Lifecycle ==
    IF socket = Null THEN "Disconnected"
    ELSE CASE sockets[socket].client \in {"connecting", "reconnecting"} -> "Connecting"
           [] sockets[socket].client = "connected" -> "Connected"
           [] OTHER -> "Disconnected"

\* io(url, { auth: { token } }): a socket that starts connecting; from records the
\* lifecycle position of its creator at that moment
NewSocket(origin, token, from) ==
    [origin |-> origin, token |-> token, from |-> from, client |-> "connecting",
     session |-> "none", user |-> Null, rooms |-> {}, outbox |-> <<>>,
     received |-> <<>>]

\* socket.disconnect() on the client: the socket is closed for good, its
\* server side leaves its rooms and what was sent to it but not taken is lost
CloseByClient(sock) ==
    [sock EXCEPT !.client = "closed",
                 !.session = IF @ = "joined" THEN "closed" ELSE @,
                 !.rooms = {},
                 !.outbox = <<>>]

WithSocket(table, id, sock) ==
    [x \in DOMAIN table \cup {id} |-> IF x = id THEN sock ELSE table[x]]

\* Faulty variant: the 'disconnect' listener of the socket being replaced is
\* not run, so the flag keeps what the replaced socket left
InitSocket_keepsFlag(token) ==
    /\ token # "none"
    /\ Cardinality(DOMAIN sockets) < MaxSockets
    /\ LET id == SocketNames[Cardinality(DOMAIN sockets) + 1]
           old == IF socket = Null THEN sockets
                  ELSE [sockets EXCEPT ![socket] = CloseByClient(@)]
       IN /\ sockets' = WithSocket(old, id, NewSocket("store", token, Lifecycle))
          /\ socket' = id
    /\ UNCHANGED <<serverVars, cacheVars, socket_connected, histVars, last_update,
                   partVars, apiVars, wsVars>>

\* init_socket with currentToken = token || auth_token
InitSocket(token) ==
    /\ token # "none"
    /\ Cardinality(DOMAIN sockets) < MaxSockets
    /\ LET id == SocketNames[Cardinality(DOMAIN sockets) + 1]
           old == IF socket = Null THEN sockets
                  ELSE [sockets EXCEPT ![socket] = CloseByClient(@)]
       IN /\ sockets' = WithSocket(old, id, NewSocket("store", token, Lifecycle))
          /\ socket' = id
    /\ socket_connected' = IF socket # Null /\ sockets[socket].client = "connected"
                             THEN FALSE
                             ELSE socket_connected
    /\ UNCHANGED <<serverVars, cacheVars, histVars, last_update, partVars, apiVars, wsVars>>

\* disconnect_socket
DisconnectSocket ==
    /\ socket # Null
    /\ sockets' = [sockets EXCEPT ![socket] = CloseByClient(@)]
    /\ socket' = Null
    /\ socket_connected' = FALSE
    /\ UNCHANGED <<serverVars, cacheVars, histVars, last_update, partVars, apiVars, wsVars>>

\* io.on('connection', (socket) => ...) for the socket s
OnConnection(s) ==
    /\ sockets[s].client \in {"connecting", "reconnecting"}
    /\ sockets[s].session = "none"
    /\ LET user == ConnectionUser(sockets[s].token)
       IN sockets' = [sockets EXCEPT ![s] =
                        IF user = Null
                          THEN [@ EXCEPT !.session = "refused"]
                          ELSE [@ EXCEPT !.session = "joined", !.user = user,
                                         !.rooms = {UserRoom(user)}]]
    /\ UNCHANGED <<serverVars, cacheVars, socketVars, histVars, last_update, partVars, apiVars, wsVars>>

\* The client's 'connect' event of the socket s, after the server took the
\* connection; the store's listener sets socket_connected
SocketOnConnect(s) ==
    /\ sockets[s].client \in {"connecting", "reconnecting"}
    /\ sockets[s].session \in {"joined", "refused"}
    /\ sockets' = [sockets EXCEPT ![s].client = "connected"]
    /\ socket_connected' = IF sockets[s].origin = "store" THEN TRUE ELSE socket_connected
    /\ UNCHANGED <<serverVars, cacheVars, socket, histVars, last_update, partVars, apiVars, wsVars>>

\* The client's 'disconnect' event of the socket s: the server has disconnected
\* it (the socket stays closed), or the transport failed (the socket connects
\* again by itself, to a new server side); the store's listener clears
\* socket_connected
SocketOnDisconnect(s) ==
    /\ sockets[s].client = "connected"
    /\ sockets' = [sockets EXCEPT ![s] =
                     IF @.session = "refused"
                       THEN [@ EXCEPT !.client = "closed"]
                       ELSE [@ EXCEPT !.client = "reconnecting", !.session = "none",
                                      !.user = Null, !.rooms = {}, !.outbox = <<>>]]
    /\ socket_connected' = IF sockets[s].origin = "store" THEN FALSE ELSE socket_connected
    /\ UNCHANGED <<serverVars, cacheVars, socket, histVars, last_update, partVars, apiVars, wsVars>>

\* Another client opens a socket, with whatever token it has
PeerConnect(token) ==
    /\ Cardinality(DOMAIN sockets) < MaxSockets
    /\ sockets' = WithSocket(sockets, SocketNames[Cardinality(DOMAIN sockets) + 1],
                             NewSocket("peer", token, "Disconnected"))
    /\ UNCHANGED <<serverVars, cacheVars, socketVars, histVars, last_update, partVars, apiVars, wsVars>>

\* Another client closes its socket
PeerDisconnect(s) ==
    /\ sockets[s].origin = "peer"
    /\ sockets[s].client # "closed"
    /\ sockets' = [sockets EXCEPT ![s] = CloseByClient(@)]
    /\ UNCHANGED <<serverVars, cacheVars, socketVars, histVars, last_update, partVars, apiVars, wsVars>>

\* Faulty variant: the event is sent to one socket of the room only
Receivers_one(ev) ==
    LET room == {s \in DOMAIN sockets :
                    sockets[s].session = "joined" /\ ev.room \in sockets[s].rooms}
    IN IF room = {} THEN {} ELSE {CHOOSE s \in room : TRUE}

\* io.of('/').to(channel).emit(channel, message): the sockets the event is sent
\* to, namely those in the room of that name
Receivers(ev) ==
    {s \in DOMAIN sockets : sockets[s].session = "joined" /\ ev.room \in sockets[s].rooms}

Sockets ==
    \/ \E token \in {"none", "invalid", "user2"} : InitSocket(token)
    \/ DisconnectSocket
    \/ \E token \in {"none", "user1", "user2"} : PeerConnect(token)
    \/ \E s \in DOMAIN sockets : OnConnection(s)
    \/ \E s \in DOMAIN sockets : SocketOnConnect(s)
    \/ \E s \in DOMAIN sockets : SocketOnDisconnect(s)
    \/ \E s \in DOMAIN sockets : PeerDisconnect(s)

SocketSpec == Init /\ [][Sockets]_vars

----------------------------------------------------------------------------
\* Events handed to broadcastEvent, and their way to the sockets of the room

MaxEvents == 2

MaxSubscribers == 2

\* Faulty variant: the packet is written in front of what the socket still holds
Enqueue_front(q, ev) == <<ev>> \o q

\* emit writes the packet to a socket after the packets already written to it
Enqueue(q, ev) == Append(q, ev)

\* Faulty variant: the emit waits until every socket of the room has taken what
\* was sent to it before
Broadcast_awaitsAcks(channel) ==
    /\ Len(published) < MaxEvents
    /\ \A s \in Receivers(broadcastEvent(channel, [seq |-> 0])) : sockets[s].outbox = <<>>
    /\ LET ev == broadcastEvent(channel, [seq |-> Len(published) + 1])
       IN /\ published' = Append(published, ev)
          /\ sockets' = [s \in DOMAIN sockets |->
                            IF s \in Receivers(ev)
                            THEN [sockets[s] EXCEPT !.outbox = Enqueue(@, ev)]
                            ELSE sockets[s]]
    /\ UNCHANGED <<dbVars, req, nreq, commits, cacheVars, socketVars, histVars, last_update, partVars, apiVars, wsVars>>

\* Server code calls broadcastEvent(channel, message); the message carries its
\* position among the calls. The call writes to the sockets of the room and
\* returns.
Broadcast(channel) ==
    /\ Len(published) < MaxEvents
    /\ LET ev == broadcastEvent(channel, [seq |-> Len(published) + 1])
       IN /\ published' = Append(published, ev)
          /\ sockets' = [s \in DOMAIN sockets |->
                            IF s \in Receivers(ev)
                              THEN [sockets[s] EXCEPT !.outbox = Enqueue(@, ev)]
                              ELSE sockets[s]]
    /\ UNCHANGED <<dbVars, req, nreq, commits, cacheVars, socketVars, histVars, last_update, partVars, apiVars, wsVars>>

\* The client of the socket s takes the next packet sent to it
Deliver(s) ==
    /\ sockets[s].client = "connected"
    /\ sockets[s].outbox # <<>>
    /\ sockets' = [sockets EXCEPT ![s].received = Append(@, Head(sockets[s].outbox)),
                                  ![s].outbox = Tail(@)]
    /\ UNCHANGED <<serverVars, cacheVars, socketVars, histVars, last_update, partVars, apiVars, wsVars>>

\* Another client opens a socket, as long as there are few of them
Subscribe(token) ==
    /\ Cardinality(DOMAIN sockets) < MaxSubscribers
    /\ PeerConnect(token)

Emit ==
    \/ \E token \in {"user1", "user2"} : Subscribe(token)
    \/ \E s \in DOMAIN sockets : OnConnection(s)
    \/ \E s \in DOMAIN sockets : SocketOnConnect(s)
    \/ \E s \in DOMAIN sockets : SocketOnDisconnect(s)
    \/ \E s \in DOMAIN sockets : PeerDisconnect(s)
    \/ \E channel \in {UserRoom("user1"), UserRoom("user2"), "task/status/updated"} :
           Broadcast(channel)
    \/ \E s \in DOMAIN sockets : Deliver(s)

EmitSpec == Init /\ [][Emit]_vars

----------------------------------------------------------------------------
\* The notification list of the store, with the events it has received

MaxNotifications == 2

NotifyIds == NotificationIds \cup {"n3"}

NotifyPayloads == [notification_id : NotifyIds, is_read : BOOLEAN]

NotifyLists ==
    {q \in SeqsUpTo(NotifyPayloads, MaxNotifications) : Distinct(q, "notification_id")}

NoUpdate == [last |-> [notification_id |-> Null], count |-> 0]

\* set_notifications by a caller, with rows keyed by notification_id
NotifySet(ns) ==
    /\ SetCache([Cache EXCEPT !.notifications = ns])
    /\ last_update' = [id \in NotifyIds |-> NoUpdate]
    /\ UNCHANGED <<serverVars, socketVars, histVars, sockets, partVars, apiVars, wsVars>>

\* socket.on('notification_update', ...)
NotifyUpdate(payload) ==
    /\ Len(notifications) < MaxNotifications
           \/ \E n \in DOMAIN notifications :
                  notifications[n].notification_id = payload.notification_id
    /\ SetCache(handle_notification_update(Cache, payload))
    /\ last_update' = [last_update EXCEPT ![payload.notification_id] =
                          [last |-> payload, count |-> IF @.count = 0 THEN 1 ELSE 2]]
    /\ UNCHANGED <<serverVars, socketVars, histVars, sockets, partVars, apiVars, wsVars>>

Notify ==
    \/ \E ns \in NotifyLists : NotifySet(ns)
    \/ \E payload \in NotifyPayloads : NotifyUpdate(payload)

NotifySpec == Init /\ [][Notify]_vars

----------------------------------------------------------------------------
\* The task cache on its own: the two setters and the task_status_updated
\* listener, with the history of the events received

NoStatus == [task_id |-> Null]

\* set_tasks by a caller, with rows keyed by task_id
StatusSetTasks(ts) ==
    /\ SetCache([Cache EXCEPT !.tasks = ts])
    /\ last_status' = [t \in TaskIds |-> NoStatus]
    /\ UNCHANGED <<serverVars, socketVars, histVars, sockets, last_update, apiVars, wsVars>>

\* set_current_task by a caller
StatusSetCurrentTask(t) ==
    /\ SetCache([Cache EXCEPT !.current_task = t])
    /\ last_status' = [u \in TaskIds |-> NoStatus]
    /\ UNCHANGED <<serverVars, socketVars, histVars, sockets, last_update, apiVars, wsVars>>

\* socket.on('task_status_updated', ...)
StatusUpdated(payload) ==
    /\ SetCache(handle_task_status_updated(Cache, payload))
    /\ last_status' = [last_status EXCEPT ![payload.task_id] = payload]
    /\ UNCHANGED <<serverVars, socketVars, histVars, sockets, last_update, apiVars, wsVars>>

\* socket.on('comment_created', ...)
StatusCommentCreated(payload) ==
    /\ current_task # NullTask => Len(current_task.comments) < MaxListLen
    /\ SetCache(handle_comment_created(Cache, payload))
    /\ UNCHANGED <<serverVars, socketVars, histVars, sockets, last_update, partVars,
                   apiVars, wsVars>>

Status ==
    \/ \E ts \in TaskLists : StatusSetTasks(ts)
    \/ \E t \in CurrentTasks \cup {NullTask} : StatusSetCurrentTask(t)
    \/ \E payload \in StatusPayloads : StatusUpdated(payload)
    \/ \E payload \in CommentPayloads : StatusCommentCreated(payload)

StatusSpec == Init /\ [][Status]_vars

----------------------------------------------------------------------------
\* Properties

Quiescent == \A c \in Conns : Free(c)

\* C1: once every status-change request has finished and no event is in flight,
\* a client that has been connected, as a member of the task's workspace, since
\* before the task's last status write committed holds that status for the
\* task wherever it caches it.
C1_SubscribersConverge ==
    Quiescent =>
        \A i \in DOMAIN tasks :
            LET t == tasks[i].task_id
            IN (watched[t] /\ Connected(t)) => tasks[i].status = db_status[t]

\* C2: for each event kind the store handles and every cache state, applying an
\* event twice in a row gives the same cache as applying it once.
C2_ApplyTwiceIsApplyOnce ==
    /\ \A p \in Notifications :
           handle_notification_update(handle_notification_update(Cache, p), p)
               = handle_notification_update(Cache, p)
    /\ \A p \in CommentPayloads :
           handle_comment_created(handle_comment_created(Cache, p), p)
               = handle_comment_created(Cache, p)
    /\ \A p \in StatusPayloads :
           handle_task_status_updated(handle_task_status_updated(Cache, p), p)
               = handle_task_status_updated(Cache, p)

\* The cached status of task t in cache c, in the list and in current_task, is s
CachedStatusIs(c, t, s) ==
    /\ \A i \in DOMAIN c.tasks : c.tasks[i].task_id = t => c.tasks[i].status = s
    /\ c.current_task.task_id = t => c.current_task.status = s

\* C3: a task_status_updated event applied after one for the same task with a
\* strictly newer timestamp leaves the cached status that of the newer event.
C3_OlderEventIgnored ==
    \A newer, older \in StatusPayloads :
        (older.task_id = newer.task_id /\ older.timestamp < newer.timestamp) =>
            CachedStatusIs(handle_task_status_updated(
                               handle_task_status_updated(Cache, newer), older),
                           newer.task_id, newer.status)

\* C4: no comment_id occurs twice in current_task.comments, whatever comments the
\* client put there from its own requests and whatever comment_created events
\* (its own echo included) followed.
C4_NoDuplicateComment ==
    current_task # NullTask => Distinct(current_task.comments, "comment_id")

\* C5: applying a task_status_updated event never moves the updated_at of a
\* cached task backwards.
C5_UpdatedAtMonotone ==
    \A p \in StatusPayloads :
        LET c == handle_task_status_updated(Cache, p)
        IN /\ \A i \in DOMAIN tasks : c.tasks[i].updated_at >= tasks[i].updated_at
           /\ current_task # NullTask => c.current_task.updated_at >= current_task.updated_at

\* C6: a status-change or add-comment request that has answered 200 has had its
\* event handed to broadcastEvent.
C6_PublishedBeforeSuccess ==
    \A c \in Conns :
        (req[c].pc = "done" /\ req[c].resp = 200 /\ req[c].kind \in {"status", "comment"}) =>
            /\ req[c].emitted >= 1
            /\ \E i \in DOMAIN published : published[i].payload.task_id = req[c].task

\* The durable write an event reports has committed
EventCommitted(e) ==
    CASE e.event = "task/status/updated" ->
           [task |-> e.payload.task_id, status |-> e.payload.new_status] \in commits
      [] e.event = "task/comment/new" ->
           \E i \in DOMAIN db_comments : /\ db_comments[i].id = e.payload.id
                                         /\ db_comments[i].task_id = e.payload.task_id
      [] OTHER -> FALSE

\* C7: every event handed to broadcastEvent reports a write that has committed,
\* and a request that was answered with a failure has published nothing.
C7_NoEventWithoutCommit ==
    /\ \A i \in DOMAIN published : EventCommitted(published[i])
    /\ \A c \in Conns :
           (req[c].pc = "done" /\ req[c].resp # 200) => req[c].emitted = 0

C7_Witness ==
    /\ \E c \in Conns : /\ req[c].kind = "status" /\ req[c].pc = "done"
                        /\ req[c].resp = 500 /\ req[c].wrote /\ req[c].emitted = 0
    /\ \E c \in Conns : /\ req[c].kind = "status" /\ req[c].pc = "done"
                        /\ req[c].resp = 403 /\ req[c].token \in Users
    /\ published = <<>>

\* C8: a finished status-change request either stored both the status and its
\* status_changed activity row and answered 200, or stored neither and answered
\* with a failure.
C8_StatusChangeAllOrNothing ==
    \A c \in Conns :
        (req[c].kind = "status" /\ req[c].pc = "done") =>
            \/ req[c].resp = 200 /\ req[c].wrote /\ req[c].logged
            \/ req[c].resp # 200 /\ ~req[c].wrote /\ ~req[c].logged

\* C9: an authenticated status-change request whose status is outside {Pending,
\* In Progress, Completed, On Hold, Cancelled} is answered 400 with no database
\* query issued, and no task ever holds a status outside that set.
C9_InvalidStatusRejectedFirst ==
    LET allowed == {"Pending", "In Progress", "Completed", "On Hold", "Cancelled"}
    IN /\ \A c \in Conns :
              (req[c].kind = "status" /\ req[c].token \in Users
                   /\ req[c].status \notin allowed) =>
                  /\ req[c].pc = "done"
                  /\ req[c].resp = 400
                  /\ req[c].queries = 0
                  /\ ~req[c].wrote
       /\ \A t \in TaskIds : db_status[t] \in allowed

C9_Witness ==
    \E c \in Conns : /\ req[c].kind = "status" /\ req[c].token \in Users
                     /\ req[c].status = "Archived"
                     /\ req[c].pc = "done" /\ req[c].resp = 400

\* The identity u has no relationship to the workspace of task t
Unrelated(u, t) ==
    /\ Role[u] # "Admin"
    /\ <<TaskWorkspace[t], u>> \notin WorkspaceUsers
    /\ WorkspaceOwner[TaskWorkspace[t]] # u

\* C10: a status-change request by an authenticated identity that is neither a
\* member of the task's workspace, nor its owner, nor an Admin never reaches the
\* writes, publishes nothing and ends with a failure answer.
C10_UnauthorizedStatusChangeRejected ==
    \A c \in Conns :
        (req[c].kind = "status" /\ req[c].token \in Users /\ req[c].task \in TaskIds
             /\ Unrelated(req[c].token, req[c].task)) =>
            /\ req[c].pc \notin {"update", "insert_activity"}
            /\ ~req[c].wrote
            /\ ~req[c].logged
            /\ req[c].emitted = 0
            /\ req[c].pc = "done" => req[c].resp \in {400, 403, 500}

C10_Witness ==
    \E c \in Conns : /\ req[c].kind = "status" /\ req[c].token = "user4"
                     /\ req[c].task = "task1" /\ req[c].status = "Completed"
                     /\ req[c].pc = "done" /\ req[c].resp = 403
                     /\ db_status = SeedStatus /\ db_activity = SeedActivity

\* C11: the status-change authorization, once it has run for an authenticated
\* caller on an existing task, refuses the caller exactly when the caller is
\* neither the owner of the task's workspace, nor a member of it, nor an Admin;
\* a member who is neither owner nor Admin is accepted.
C11_StatusChangeAuthorization ==
    \A c \in Conns :
        (req[c].kind = "status" /\ req[c].token \in Users /\ req[c].task \in TaskIds
             /\ req[c].owner # Null) =>
            ((req[c].pc = "done" /\ req[c].resp = 403)
                 <=> Unrelated(req[c].token, req[c].task))

\* The identity u is a member or the owner of the workspace of task t
Member(u, t) ==
    \/ <<TaskWorkspace[t], u>> \in WorkspaceUsers
    \/ WorkspaceOwner[TaskWorkspace[t]] = u

\* The live sessions whose identity belongs to the workspace of task t (the
\* connection handler records no other subscription)
Audience(t) ==
    {s \in DOMAIN sockets : sockets[s].session = "joined" /\ Member(sockets[s].user, t)}

\* C12: a task-scoped event (status change, new comment) published for a task is
\* delivered to every live session subscribed to the task's workspace and to no
\* other session.
C12_TaskEventAudience ==
    \A t \in TaskIds :
        /\ Receivers(broadcastTaskStatusUpdate(t, db_status[t], 0)) = Audience(t)
        /\ Receivers(broadcastCommentCreated([comment_id |-> 1, task_id |-> t]))
               = Audience(t)

\* The live sessions of the identity u
SessionsOf(u) ==
    {s \in DOMAIN sockets : sockets[s].session = "joined" /\ sockets[s].user = u}

\* C13: an event addressed to the identity u (a notification emitted to the room
\* the connection handler joins u's sockets to) is delivered to every live
\* session of u and to no session of another identity.
C13_IdentityEventAudience ==
    \A u \in Users :
        Receivers(broadcastEvent(UserRoom(u), [notification_id |-> "n1", is_read |-> FALSE]))
            = SessionsOf(u)

\* user2 has two live sessions, the store's and another client's, next to a live
\* session of user1; an event for user2 goes to exactly the first two
C13_Witness ==
    \E a, b, o \in DOMAIN sockets :
        /\ a # b
        /\ sockets[a].origin = "store" /\ sockets[b].origin = "peer"
        /\ SessionsOf("user2") = {a, b}
        /\ SessionsOf("user1") = {o}
        /\ Receivers(broadcastEvent(UserRoom("user2"),
                                    [notification_id |-> "n1", is_read |-> FALSE])) = {a, b}

\* Every room an event can be emitted to: the channels of the broadcast helpers
\* and the rooms of the identities
Channels ==
    {"task/status/updated", "task/comment/new", "task/attachment/uploaded",
     "task/reorder", "activity/stream"} \cup {UserRoom(t) : t \in Tokens}

\* C14: a connection whose handshake carries no token, or a token that fails
\* verification, is disconnected by the connection handler, is never associated
\* with an identity, never joins a room, and receives no event.
C14_BadTokenRefused ==
    \A s \in DOMAIN sockets :
        sockets[s].token \notin Users =>
            /\ sockets[s].session \in {"none", "refused"}
            /\ sockets[s].client = "connected" => sockets[s].session = "refused"
            /\ sockets[s].user = Null
            /\ sockets[s].rooms = {}
            /\ \A ch \in Channels : s \notin Receivers(broadcastEvent(ch, [task_id |-> "task1"]))

\* The handler has refused a connection without token and the store's connection
\* with an invalid token, and the store's socket has seen the disconnect
C14_Witness ==
    \E a, b \in DOMAIN sockets :
        /\ sockets[a].token = "none" /\ sockets[a].session = "refused"
        /\ sockets[b].token = "invalid" /\ sockets[b].session = "refused"
        /\ sockets[b].origin = "store" /\ socket = b /\ sockets[b].client = "closed"

\* C15: the store starts a connection only from the Disconnected position: a call
\* of init_socket while a connection is being established (or is established)
\* creates no further connection.
C15_ConnectingOnlyFromDisconnected ==
    \A s \in DOMAIN sockets :
        sockets[s].origin = "store" => sockets[s].from = "Disconnected"

\* C16: when the store is connected again after a drop during which a status
\* write committed, it fetches what it shows again: once no request is in
\* progress, every task it caches carries the stored status.
C16_RefetchOnReconnect ==
    (Quiescent /\ socket_connected /\ link = "restored") =>
        \A i \in 1 .. Len(tasks) : tasks[i].status = db_status[tasks[i].task_id]

\* C17: the event names and payload fields the server emits are those the
\* client listens for: task_status_updated with task_id, status and timestamp,
\* comment_created, task_reorder and activity/stream.
C17_WireNamesAgree ==
    /\ \A t \in TaskIds :
           LET ev == broadcastTaskStatusUpdate(t, db_status[t], 0)
           IN /\ ev.event = "task_status_updated"
              /\ DOMAIN ev.payload = StatusPayloadFields
    /\ \A ev \in {broadcastCommentCreated([task_id |-> "task1"]),
                  broadcastTaskReordered([task_id |-> "task1"]),
                  broadcastActivityStream([task_id |-> "task1"])} :
           ev.event \in Listeners
    /\ broadcastCommentCreated([task_id |-> "task1"]).event = "comment_created"
    /\ broadcastTaskReordered([task_id |-> "task1"]).event = "task_reorder"
    /\ broadcastActivityStream([task_id |-> "task1"]).event = "activity/stream"

\* C18: starting from a list with distinct notification_ids, after any sequence
\* of notification_update events the list holds at most one entry per
\* notification_id, and the entry of every id that received an event equals the
\* payload of the last event for that id.
C18_NotificationUpsert ==
    /\ Distinct(notifications, "notification_id")
    /\ \A id \in NotifyIds :
           last_update[id].count > 0 =>
               \E i \in DOMAIN notifications : notifications[i] = last_update[id].last

\* Two events for one id have been applied to a list that holds another
\* updated entry in front of it
C18_Witness ==
    \E id \in NotifyIds :
        /\ last_update[id].count = 2
        /\ Len(notifications) = 2
        /\ notifications[2] = last_update[id].last
        /\ last_update[notifications[1].notification_id].count > 0

\* The task ids of a task list, in its order
TaskOrder(q) == [i \in DOMAIN q |-> q[i].task_id]

\* The orders a task_reorder event can carry for the cached tasks
Reorders ==
    {q \in SeqsUpTo(TaskIds, MaxListLen) :
        /\ \A i, j \in DOMAIN q : i # j => q[i] # q[j]
        /\ {q[i] : i \in DOMAIN q} = {tasks[i].task_id : i \in DOMAIN tasks}}

\* C19: once a task_reorder event has been handled, the cached task list is in
\* the order the event carries.
C19_ReorderApplied ==
    \A order \in Reorders :
        TaskOrder(handle_task_reordered(Cache, order).tasks) = order

\* The status events published for task t, in the order of their publication
StatusEventsOf(t) ==
    SelectSeq(published,
              LAMBDA e : e.event = "task/status/updated" /\ e.payload.task_id = t)

\* C20: when two concurrent status-change requests on one task have both
\* committed and no request is in progress any more, the status events published
\* for the task follow the commits, one for each, and the last of them carries
\* the status the task finally has in the database.
C20_PublishOrderIsCommitOrder ==
    \A t \in TaskIds :
        (raced = t /\ Quiescent) =>
            LET ev == StatusEventsOf(t)
            IN /\ Len(ev) >= 2
               /\ ev[Len(ev)].payload.new_status = db_status[t]

\* The packets of socket s, those its client has taken followed by those still
\* waiting for it
PacketsOf(s) == sockets[s].received \o sockets[s].outbox

SameIdentity(a, b) ==
    /\ sockets[a].session = "joined" /\ sockets[b].session = "joined"
    /\ sockets[a].user = sockets[b].user

\* C23: two live sessions of one identity get the same sequence of events over
\* the time in which both are live: every step that sends an event to one of
\* them sends the same event, as its latest, to the other.
C23_SameIdentitySameEvents ==
    [][\A a, b \in DOMAIN sockets :
          (/\ SameIdentity(a, b) /\ a \in DOMAIN sockets' /\ b \in DOMAIN sockets'
           /\ SameIdentity(a, b)'
           /\ PacketsOf(a)' # PacketsOf(a)) =>
              /\ PacketsOf(a)' = Append(PacketsOf(a), published'[Len(published')])
              /\ PacketsOf(b)' = Append(PacketsOf(b), published'[Len(published')])]_vars

\* Two live sessions of user2 have both been sent two events, and the clients of
\* both have taken some of them
C23_Witness ==
    \E a, b \in DOMAIN sockets :
        /\ a # b
        /\ sockets[a].session = "joined" /\ sockets[b].session = "joined"
        /\ sockets[a].user = "user2" /\ sockets[b].user = "user2"
        /\ Len(PacketsOf(a)) = 2 /\ Len(PacketsOf(b)) = 2
        /\ sockets[a].received # <<>> /\ sockets[b].received # <<>>

Carries(tk, p) == tk.status = p.status /\ tk.updated_at = p.timestamp

\* C25: once a task_status_updated event for a cached task T has been handled,
\* the status and updated_at of T are those of the event, in the tasks list and,
\* when current_task is T, in current_task; events for other tasks do not
\* change that.
C25_StatusEventApplied ==
    \A t \in TaskIds :
        last_status[t] # NoStatus =>
            /\ \A i \in DOMAIN tasks :
                   tasks[i].task_id = t => Carries(tasks[i], last_status[t])
            /\ current_task.task_id = t => Carries(current_task, last_status[t])

\* An event for the task that is second in the list and is also current_task
\* has been handled, after an event with other values for the task in front of it
C25_Witness ==
    \E t \in TaskIds :
        /\ last_status[t] # NoStatus
        /\ Len(tasks) = 2 /\ tasks[2].task_id = t
        /\ current_task.task_id = t
        /\ last_status[tasks[1].task_id] # NoStatus
        /\ ~Carries(tasks[1], last_status[t])

\* C26: change status, add comment, upload attachment, update task and delete
\* task all decide alike on the caller's role, membership and ownership, by the
\* one rule that refuses exactly the caller who is neither owner, nor member,
\* nor Admin. Stated on the callers whose role, membership and ownership a
\* request has read.
C26_OneAuthorizationRule ==
    \A c \in Conns :
        (req[c].token \in Users /\ req[c].task \in TaskIds /\ req[c].owner # Null) =>
            LET role == Role[req[c].token]
                isMember == req[c].member
                isOwner == req[c].owner = req[c].token
                refused == ~(role = "Admin" \/ isMember \/ isOwner)
            IN /\ StatusForbidden(role, isMember, TRUE, isOwner) = refused
               /\ CommentForbidden(role, isMember, isOwner) = refused
               /\ AttachmentForbidden(role, isMember, TRUE, isOwner) = refused
               /\ UpdateForbidden(isMember, TRUE, isOwner) = refused
               /\ DeleteForbidden(role, isMember, TRUE, isOwner) = refused
               /\ (req[c].pc = "done" /\ req[c].resp = 403) => refused

\* C27: a caller who is neither owner, nor member, nor Admin for the workspace
\* of a task is refused by the favorite and unfavorite entry points, which then
\* write nothing; no row of task_favorites joins a user to a task of a workspace
\* the user has no access to.
C27_FavoriteNeedsAccess ==
    /\ \A row \in db_favorites :
           row[2] \in TaskIds => ~Unrelated(row[1], row[2])
    /\ \A c \in Conns :
           (/\ req[c].kind \in {"favorite", "unfavorite"} /\ req[c].pc = "done"
            /\ req[c].token \in Users /\ req[c].task \in TaskIds
            /\ Unrelated(req[c].token, req[c].task)) =>
               req[c].resp \in {403, 500} /\ ~req[c].wrote

\* C28: no INSERT or UPDATE on tasks is sent to the database with a status
\* outside the five valid ones: create task and update task refuse such a
\* status before any write.
C28_StatusValidatedBeforeWrite ==
    \A w \in writes : w.status \in validStatuses

\* Row tk is a copy of task t read before the last event handled for t was written
ReadBefore(tk, t) ==
    /\ last_status[t] # NoStatus
    /\ tk.task_id = t
    /\ tk.updated_at < last_status[t].timestamp

\* C29: when the result of a fetch that was read before the write of an event
\* already handled is put in the cache with set_tasks or set_current_task, the
\* cached status of the task stays that of the event, the newer of the two.
C29_EventSurvivesStaleFetch ==
    [][\A t \in TaskIds :
          last_status'[t] = NoStatus =>
              /\ \A i \in DOMAIN tasks' :
                     (/\ tasks' # tasks /\ ReadBefore(tasks'[i], t)
                      /\ \E j \in DOMAIN tasks : tasks[j].task_id = t) =>
                         tasks'[i].status = last_status[t].status
              /\ (/\ current_task' # current_task /\ ReadBefore(current_task', t)
                  /\ current_task.task_id = t) =>
                     current_task'.status = last_status[t].status]_vars

\* C30: an activity/stream event received while a task is viewed is added to
\* that task's activity_log, which stays most-recent-first and holds each
\* activity_id once.
C30_ActivityLogged ==
    \A payload \in ActivityPayloads :
        current_task # NullTask =>
            LET log == handle_activity_stream(Cache, payload).current_task.activity_log
            IN /\ \E i \in DOMAIN log : log[i] = payload
               /\ Distinct(log, "activity_id")
               /\ \A i, j \in DOMAIN log : i < j => log[i].timestamp >= log[j].timestamp

\* C31: in every state of the store, whatever the order of init_socket,
\* disconnect_socket and the connect and disconnect events of the store's
\* current socket and of the sockets it replaced, socket_connected is true only
\* when socket is not null and is itself connected.
C31_FlagMeansCurrentSocketConnected ==
    socket_connected =>
        /\ socket # Null
        /\ socket \in DOMAIN sockets
        /\ sockets[socket].origin = "store"
        /\ sockets[socket].client = "connected"

\* The store is on its third socket, which is connected and flagged so; the two
\* it replaced are closed, one of them after its session had been live
C31_Witness ==
    \E a, b, c \in DOMAIN sockets :
        /\ a # b /\ socket = c /\ socket_connected
        /\ sockets[c].client = "connected"
        /\ sockets[a].origin = "store" /\ sockets[a].client = "closed"
        /\ sockets[a].session = "closed"
        /\ sockets[b].origin = "store" /\ sockets[b].client = "closed"

\* C32: once a create-workspace request has finished, with success or with
\* failure, its workspace row exists exactly when the workspace_users row of
\* its creator exists, and a request that failed has left no workspace row.
C32_WorkspaceCreationAtomic ==
    \A c \in Conns :
        (req[c].kind = "workspace" /\ req[c].pc = "done" /\ req[c].ws # Null) =>
            /\ req[c].ws \in db_workspaces <=> req[c].ws \in db_members
            /\ req[c].resp = 500 => req[c].ws \notin db_workspaces

\* Every request received so far is an add-favorite request and is still on
\* its connection
OnlyFavoriteRequests ==
    /\ \A c \in Conns : req[c].kind \in {"none", "favorite"}
    /\ Cardinality({c \in Conns : req[c].kind = "favorite"}) = nreq

\* C33: however concurrent add-favorite requests of one user for one task
\* interleave, each of them answers with success and the user's favorite row
\* for the task exists afterwards (once; the table's key allows no second
\* row). Stated for requests the database did not fail for reasons of its own.
C33_AddFavoriteIdempotent ==
    OnlyFavoriteRequests =>
        \A c \in Conns :
            (/\ req[c].kind = "favorite" /\ req[c].pc = "done"
             /\ req[c].token \in Users /\ req[c].task \in TaskIds
             /\ req[c].error # "failed") =>
                /\ req[c].resp = 200
                /\ <<req[c].token, req[c].task>> \in db_favorites

\* Cache c1 differs from cache c0 at most in the cached copies of task t: the
\* list keeps its length and its order, every other task and the notifications
\* are as before, and nothing differs when t is not cached
OnlyTaskChanged(c0, c1, t) ==
    /\ Len(c1.tasks) = Len(c0.tasks)
    /\ \A i \in DOMAIN c0.tasks :
           /\ c1.tasks[i].task_id = c0.tasks[i].task_id
           /\ c0.tasks[i].task_id # t => c1.tasks[i] = c0.tasks[i]
    /\ c1.current_task.task_id = c0.current_task.task_id
    /\ c0.current_task.task_id # t => c1.current_task = c0.current_task
    /\ c1.notifications = c0.notifications
    /\ ((\A i \in DOMAIN c0.tasks : c0.tasks[i].task_id # t)
           /\ c0.current_task.task_id # t) => c1 = c0

\* C34: a task_status_updated or comment_created event about task T changes no
\* cached task but T, keeps the length and order of the tasks list, and changes
\* nothing when T is neither in the list nor current_task; comment_created
\* leaves the tasks list as it is.
C34_EventTouchesOnlyItsTask ==
    /\ \A p \in StatusPayloads :
           OnlyTaskChanged(Cache, handle_task_status_updated(Cache, p), p.task_id)
    /\ \A p \in CommentPayloads :
           /\ OnlyTaskChanged(Cache, handle_comment_created(Cache, p), p.task_id)
           /\ handle_comment_created(Cache, p).tasks = tasks

\* A status event has been handled for a task of a list of two whose other
\* task, untouched, is current_task, and comment events have filled the
\* comments of current_task beyond what a setter gives
C34_Witness ==
    \E t \in TaskIds :
        /\ last_status[t] # NoStatus
        /\ Len(tasks) = 2
        /\ \E i \in DOMAIN tasks : tasks[i].task_id = t /\ Carries(tasks[i], last_status[t])
        /\ current_task # NullTask /\ current_task.task_id # t
        /\ last_status[current_task.task_id] = NoStatus
        /\ Len(current_task.comments) = MaxListLen

====
